---- MODULE Spec2Model ----
(***************************************************************************)
(* Sandcastle-Utilities: the three snapshot / mutate / deploy / restore    *)
(* tools (sf_triggers.py, sf_validations.py, sf_custom_settings.py), the   *)
(* sandbox safety gate they share (cli/salesforce_cli.py is_sandbox,       *)
(* sandcastle_utils.verify_sandbox_org) and the remote orgs they act on.   *)
(*                                                                         *)
(* One behaviour exercises one tool (the three tools keep disjoint files   *)
(* under ~/Sandcastle and touch disjoint metadata of the org).  A run of   *)
(* a tool is a sequence of steps (run.pc); between runs the disk and the   *)
(* remote orgs persist, and the remote may be changed by somebody else.    *)
(***************************************************************************)
EXTENDS Integers, FiniteSets, Sequences, TLC

\* ------------------------------------------------------------------ bounds
\* number of out-of-band changes of the remote org in one behaviour
MaxExt == 1
\* calls made on one SalesforceCLI instance
MaxCalls == 3

\* ------------------------------------------------------------------ program constants
\* wait_with_interrupt(30) in the reminder loop
WaitSeconds == 30
\* a desktop notification every 60 seconds
NotifyEvery == 60

\* ------------------------------------------------------------------ universe
Orgs == {"A", "B"}
Triggers == {"t1", "t2"}
Objects == {"X", "Y"}
Rules == {"r1", "r2"}
Fields == {"f1", "f2"}
Tools == {"trigger", "validation", "checkbox", "util", "cli", "session", "race"}

\* what the Organization query (primary signal) can yield
PrimaryOutcomes == {"rec_true", "rec_false", "rec_nofield", "norec", "fail"}
\* what `sf org display` (fallback signal) can yield
FallbackOutcomes == {"url_sandbox", "url_other", "nourl", "fail"}
\* an external tool step: applied and exit 0; not applied and exit non-zero;
\* not applied although the process exits 0 (application-level failure)
ToolOutcomes == {"ok", "fail", "exit0_fail"}

None == "-"
TrigStatus == {"Active", "Inactive"}
Bool == {"T", "F"}

\* the validation rules of an sObject (Y has none)
RulesOf(obj) == IF obj = "X" THEN {"r1", "r2"} ELSE {}

VARIABLES
    tool,        \* the script this behaviour runs
    run,         \* the current / last run of the script
    remoteTrig,  \* [org -> [trigger -> status]]          ApexTrigger status in the org
    trigState,   \* ~/Sandcastle/apextriggers/trigger_state.json
    trigLocal,   \* force-app/main/default/triggers/*.trigger-meta.xml
    remoteRules, \* [org -> [rule -> "T" | "F"]]          <active> of each validation rule
    valCache,    \* ~/Sandcastle/MetadataCache
    remoteChk,   \* [org -> [field -> "T" | "F" | "-"]]   checkbox fields of the custom setting
    chkState,    \* ~/Sandcastle/custom_setting_state.json
    sf_cli,      \* one SalesforceCLI instance: its caches, the audit log, history
    race,        \* two trigger-disable runs started side by side, and their history
    bulk,        \* the last call of SalesforceCLI.bulk_delete_records
    rt,          \* history: progress of a mutate / restore round trip
    nExt         \* out-of-band changes so far

trigVars == <<remoteTrig, trigState, trigLocal>>
valVars == <<remoteRules, valCache>>
chkVars == <<remoteChk, chkState>>
vars == <<tool, run, sf_cli, trigVars, valVars, chkVars, race, bulk, rt, nExt>>

\* ------------------------------------------------------------------ is_sandbox
\* a variant of is_sandbox that trusts a sandbox-looking instance URL over the
\* Organization record
is_sandbox_url_first(prim, fb) ==
    IF fb = "url_sandbox" THEN "T"
    ELSE IF prim \in {"rec_true", "rec_false", "rec_nofield"}
    THEN (IF prim = "rec_true" THEN "T" ELSE "F")
    ELSE IF fb = "fail" THEN "err"
    ELSE "F"

\* SalesforceCLI.is_sandbox: "T" / "F" returned, "err" a RuntimeError raised
is_sandbox(prim, fb) ==
    IF prim \in {"rec_true", "rec_false", "rec_nofield"}
    THEN (IF prim = "rec_true" THEN "T" ELSE "F")
    ELSE IF fb = "fail" THEN "err"
    ELSE IF fb = "url_sandbox" THEN "T"
    ELSE "F"

\* a variant of verify_sandbox that lets a run through when is_sandbox raised
verify_sandbox_lenient(isb) == IF isb = "F" THEN "raise" ELSE "proceed"

\* TriggerManager.verify_sandbox
verify_sandbox(isb) == IF isb = "T" THEN "proceed" ELSE "raise"

\* the gate at the head of manage_validation_rules_in_temp_project;
\* marker: the text of the error raised by is_sandbox holds "production org"
\* or "SAFETY CHECK FAILED"
validation_gate(isb, marker) ==
    IF isb = "F" THEN "raise"
    ELSE IF isb = "err" THEN (IF marker THEN "raise" ELSE "warn")
    ELSE "proceed"

\* sandcastle_utils.verify_sandbox_org
verify_sandbox_org(cliAvailable, isb, marker) ==
    IF ~cliAvailable THEN "warn"
    ELSE IF isb = "F" THEN "raise"
    ELSE IF isb = "err" THEN (IF marker THEN "raise" ELSE "warn")
    ELSE "proceed"

\* check_triggers' gate (same shape as the validation gate)
check_gate(isb, marker) ==
    IF isb = "F" THEN "raise"
    ELSE IF isb = "err" THEN (IF marker THEN "raise" ELSE "warn")
    ELSE "proceed"

\* ------------------------------------------------------------------ command executors
\* "cli": SalesforceCLI._execute_sf_command, "val": sf_validations.run_sf_command,
\* "trig": TriggerManager.run_sf_command
Executors == {"cli", "val", "trig"}
\* what the tool wrote to stdout: nothing, text that is no JSON, or a JSON
\* object with status 0, with another status, without a status
Stdouts == {"empty", "text", "obj_status0", "obj_status1", "obj_nostatus"}

\* one invocation: is the binary there, the exit code, stdout, whether the JSON
\* object has a message, whether stderr is non-empty
Invocations ==
    [exec : Executors, binary : BOOLEAN, rc : {0, 1}, stdout : Stdouts,
     message : BOOLEAN, stderr : BOOLEAN]
NoInp == [exec |-> None, binary |-> TRUE, rc |-> 0, stdout |-> None,
          message |-> FALSE, stderr |-> FALSE]
\* what the caller gets: ret the value returned or the exception raised; for an
\* exception its text (kind), and whether it carries the tool's message, the
\* raw stderr, the parsed payload (sf_error_data), the raw stdout
NoRes == [ret |-> None, kind |-> None, msg |-> FALSE, stderr |-> FALSE,
          data |-> FALSE, raw |-> FALSE]

\* json_output is the tool's object (and not the initial {})
parsed(stdout) == stdout \in {"obj_status0", "obj_status1", "obj_nostatus"}

\* a variant of status_of that takes a missing status for 0
status_of_lenient(stdout) == IF stdout = "obj_status1" THEN 1 ELSE 0

\* json_output.get('status'): -1 stands for None
status_of(stdout) ==
    IF stdout = "obj_status0" THEN 0
    ELSE IF stdout = "obj_status1" THEN 1
    ELSE -1

\* a variant of is_failure that looks at the exit code only
is_failure_rc_only(rc, status) == rc # 0

\* `result.returncode != 0 or json_output.get('status') != 0`
is_failure(rc, status) == rc # 0 \/ status # 0

\* SalesforceCLI._execute_sf_command
execute_sf_command(i) ==
    IF ~i.binary
    THEN [NoRes EXCEPT !.ret = "RuntimeError", !.kind = "not_found"]
    ELSE IF is_failure(i.rc, status_of(i.stdout))
    THEN [NoRes EXCEPT !.ret = "RuntimeError", !.kind = "failed",
                       !.msg = (parsed(i.stdout) /\ i.message),
                       !.stderr = i.stderr, !.data = TRUE]
    ELSE [NoRes EXCEPT !.ret = "payload"]

\* sf_validations.run_sf_command
run_sf_command(i) ==
    IF ~i.binary
    THEN [NoRes EXCEPT !.ret = "RuntimeError", !.kind = "not_found"]
    ELSE IF is_failure(i.rc, status_of(i.stdout))
    THEN [NoRes EXCEPT !.ret = "RuntimeError", !.kind = "failed",
                       !.msg = (parsed(i.stdout) /\ i.message),
                       !.stderr = (i.stderr /\ ~(parsed(i.stdout) /\ i.message))]
    ELSE [NoRes EXCEPT !.ret = "payload"]

\* TriggerManager.run_sf_command: subprocess.run(check=True)
trigger_run_sf_command(i) ==
    IF ~i.binary
    THEN [NoRes EXCEPT !.ret = "FileNotFoundError"]
    ELSE IF i.rc # 0
    THEN [NoRes EXCEPT !.ret = "False"]
    ELSE [NoRes EXCEPT !.ret = "True"]

\* the executor named by the invocation
execute(i) ==
    IF i.exec = "cli" THEN execute_sf_command(i)
    ELSE IF i.exec = "val" THEN run_sf_command(i)
    ELSE trigger_run_sf_command(i)

\* ------------------------------------------------------------------ run record
NoFile == [t \in Triggers |-> None]

IdleRun ==
    [pc |-> "idle", mode |-> None, org |-> None, obj |-> None, reset |-> FALSE,
     primFalse |-> FALSE, fbSandbox |-> FALSE, noSignal |-> FALSE, prim |-> None, fb |-> None, isb |-> None, gate |-> None,
     ev |-> {}, exit |-> None, dep |-> None, r0 |-> None, had |-> FALSE,
     src |-> None, orig |-> None, countdown |-> 0, answer |-> None,
     confirm |-> None,
     modified |-> -1, skipped |-> -1, inp |-> NoInp, res |-> NoRes]

Idle == run.pc = "idle"

\* a fresh run that has evaluated its gate.  Of the two signals the run keeps
\* what is_sandbox made of them (isb), whether the Organization record said
\* IsSandbox = false (primFalse) and whether the instance URL then looked like
\* a sandbox all the same (fbSandbox), and whether neither signal was there
\* (noSignal): no Organization record and no instanceUrl
NewRun(mode, org, obj, reset, prim, fb, gate) ==
    [IdleRun EXCEPT !.pc = "gate", !.mode = mode, !.org = org, !.obj = obj,
                    !.reset = reset, !.primFalse = (prim = "rec_false"),
                    !.fbSandbox = (prim = "rec_false" /\ fb = "url_sandbox"),
                    !.noSignal = (prim \in {"norec", "fail"} /\ fb \in {"nourl", "fail"}),
                    !.isb = is_sandbox(prim, fb), !.gate = gate, !.ev = {"gate"}]

Finish(r, code) == [r EXCEPT !.pc = "done", !.exit = code]

\* the effect a step has on the remote, and what the calling code sees
Applied(out) == out = "ok"
ExitZero(out) == out # "fail"

\* ------------------------------------------------------------------ round-trip history
MutateModes == {"disable", "check_all", "uncheck_all", "check_all_unchecked"}
RestoreModes == {"enable", "restore"}
NoRt == [phase |-> "none", org |-> None, obj |-> None, pre |-> None]

\* a run that starts after a completed round trip starts a new history
RtBegin == IF rt.phase \in {"mutated", "failed"} THEN rt ELSE NoRt

\* a run's deploys all took effect (or it needed none)
DeploysApplied(r) == r.dep \in {None, "ok"}

\* the run wrote its snapshot and then saw its deploy fail
DeployFailed(r) ==
    r.mode \in MutateModes /\ "snapwrite" \in r.ev /\ "deploy" \in r.ev /\ r.exit = 1

\* the history when the run r ends
RtEnd(r) ==
    IF r.mode \in MutateModes /\ r.exit = 0 /\ DeploysApplied(r) /\ "snapwrite" \in r.ev
    THEN [phase |-> "mutated", org |-> r.org, obj |-> r.obj, pre |-> r.r0]
    ELSE IF DeployFailed(r)
    THEN [phase |-> "failed", org |-> r.org, obj |-> r.obj, pre |-> r.r0]
    ELSE IF /\ rt.phase = "mutated" /\ r.mode \in RestoreModes /\ r.exit = 0
            /\ r.dep = "ok" /\ r.org = rt.org /\ r.obj = rt.obj
    THEN [rt EXCEPT !.phase = "restored"]
    ELSE NoRt

\* the process of the run ends; nothing of it remains but its files
RunExit ==
    /\ run.pc = "done"
    /\ run' = IdleRun
    /\ rt' = RtEnd(run)
    /\ UNCHANGED <<race, bulk, tool, sf_cli, trigVars, valVars, chkVars, nExt>>

\* ------------------------------------------------------------------ trigger tool
\* TriggerManager.load_state: the mapping, {} when the file is missing
load_state ==
    IF trigState.exists THEN trigState.items ELSE NoFile

\* a variant of StateEmpty for which no state is empty
StateEmpty_never(st) == FALSE

\* `not state`: the mapping holds no trigger
StateEmpty(st) == \A t \in Triggers : st[t] = None

\* a variant of state_blocks_disable that lets every disable run through
state_blocks_disable_off(exists, reset) == FALSE

\* main(): `if manager.state_file.exists() and not args.reset` ahead of a disable
state_blocks_disable(exists, reset) == exists /\ ~reset

\* a variant of changed_triggers that lists every meta file
changed_triggers_all(local) == local

\* TriggerManager.disable_triggers: the triggers it changed, with their status
changed_triggers(local) ==
    [t \in Triggers |-> IF local[t] = "Active" THEN local[t] ELSE None]

\* TriggerManager.disable_triggers: the meta files afterwards
disabled_files(local) ==
    [t \in Triggers |-> IF local[t] = "Active" THEN "Inactive" ELSE local[t]]

\* a variant of enabled_files that writes nothing back
enabled_files_none(local, state) == local

\* TriggerManager.enable_triggers: the meta files afterwards
enabled_files(local, state) ==
    [t \in Triggers |->
        IF local[t] # None /\ state[t] # None THEN state[t] ELSE local[t]]

\* a variant of save_state that writes over a state file that exists
save_state_overwrite(cur, state, force) == [exists |-> TRUE, items |-> state]

\* TriggerManager.save_state
save_state(cur, state, force) ==
    IF cur.exists /\ ~force THEN cur
    ELSE [exists |-> TRUE, items |-> state]

\* sf project retrieve start -x manifest/triggersPackage.xml
retrieved_files(local, remote) == [t \in Triggers |-> remote[t]]

\* sf project deploy start -x manifest/triggersPackage.xml
deployed_remote(remote, local) ==
    [t \in Triggers |-> IF local[t] # None THEN local[t] ELSE remote[t]]

\* main() of sf_triggers.py up to the first call of the external tool
TrigBegin ==
    /\ tool = "trigger"
    /\ Idle
    /\ \E org \in Orgs, check \in BOOLEAN, enable \in BOOLEAN, reset \in BOOLEAN,
          prim \in PrimaryOutcomes, fb \in FallbackOutcomes :
        LET isb  == is_sandbox(prim, fb)
            mode == IF check THEN "check" ELSE IF enable THEN "enable" ELSE "disable"
            gate == verify_sandbox(isb)
            r    == [NewRun(mode, org, None, reset /\ mode = "disable", prim, fb, gate)
                        EXCEPT !.r0 = IF mode = "disable" THEN remoteTrig[org] ELSE None,
                               !.had = trigState.exists]
        IN
        IF check
        THEN \* check_triggers: its own gate, then one read-only query
             /\ \E marker \in BOOLEAN, qok \in BOOLEAN :
                  LET g == check_gate(isb, marker) IN
                  run' = Finish([r EXCEPT !.gate = g],
                                IF g = "raise" \/ ~qok THEN 1 ELSE 0)
             /\ UNCHANGED <<trigState, trigLocal>>
        ELSE IF gate = "raise"
        THEN /\ run' = Finish(r, 1)
             /\ UNCHANGED <<trigState, trigLocal>>
        ELSE IF enable
        THEN /\ run' = IF StateEmpty(load_state) THEN Finish(r, 1)
                       ELSE [r EXCEPT !.pc = "retrieve"]
             /\ UNCHANGED <<trigState, trigLocal>>
        ELSE IF reset
        THEN \* --reset: unlink the state file, cleanup_triggers
             /\ trigState' = [exists |-> FALSE, items |-> NoFile]
             /\ trigLocal' = NoFile
             /\ run' = [r EXCEPT !.pc = "retrieve",
                                 !.ev = @ \cup (IF trigState.exists THEN {"snapdel"} ELSE {})]
        ELSE /\ run' = IF state_blocks_disable(trigState.exists, reset) THEN Finish(r, 1)
                       ELSE [r EXCEPT !.pc = "retrieve"]
             /\ UNCHANGED <<trigState, trigLocal>>
    /\ rt' = RtBegin
    /\ UNCHANGED <<race, bulk, tool, sf_cli, remoteTrig, valVars, chkVars, nExt>>

\* retrieve_triggers
TrigRetrieve ==
    /\ tool = "trigger"
    /\ run.pc = "retrieve"
    /\ \E out \in ToolOutcomes :
        /\ trigLocal' = IF Applied(out)
                        THEN retrieved_files(trigLocal, remoteTrig[run.org])
                        ELSE trigLocal
        /\ run' = IF ExitZero(out)
                  THEN [run EXCEPT !.pc = "local", !.ev = @ \cup {"retrieve"}]
                  ELSE Finish([run EXCEPT !.ev = @ \cup {"retrieve"}], 1)
    /\ UNCHANGED <<race, bulk, tool, sf_cli, remoteTrig, trigState, valVars, chkVars, rt, nExt>>

\* disable_triggers + save_state, or enable_triggers
TrigLocal ==
    /\ tool = "trigger"
    /\ run.pc = "local"
    /\ IF run.mode = "disable"
       THEN LET changed == changed_triggers(trigLocal) IN
            /\ trigLocal' = disabled_files(trigLocal)
            /\ IF StateEmpty(changed)
               THEN /\ run' = Finish(run, 0)
                    /\ UNCHANGED trigState
               ELSE /\ trigState' = save_state(trigState, changed, run.reset)
                    /\ run' = [run EXCEPT !.pc = "deploy",
                                          !.ev = @ \cup {"localedit", "snapwrite"}]
       ELSE /\ trigLocal' = enabled_files(trigLocal, load_state)
            /\ run' = [run EXCEPT !.pc = "deploy", !.ev = @ \cup {"localedit"}]
            /\ UNCHANGED trigState
    /\ UNCHANGED <<race, bulk, tool, sf_cli, remoteTrig, valVars, chkVars, rt, nExt>>

\* deploy_triggers and what main() does with its result
TrigDeploy ==
    /\ tool = "trigger"
    /\ run.pc = "deploy"
    /\ \E out \in ToolOutcomes :
        LET r == [run EXCEPT !.ev = @ \cup {"deploy"}, !.dep = out] IN
        /\ remoteTrig' = IF Applied(out)
                         THEN [remoteTrig EXCEPT ![run.org] = deployed_remote(@, trigLocal)]
                         ELSE remoteTrig
        /\ IF ~ExitZero(out)
           THEN /\ run' = Finish(r, 1)
                /\ UNCHANGED <<trigState, trigLocal>>
           ELSE IF run.mode = "enable"
           THEN \* state_file.unlink(), cleanup_triggers()
                /\ trigState' = [exists |-> FALSE, items |-> NoFile]
                /\ trigLocal' = NoFile
                /\ run' = Finish([r EXCEPT !.ev = @ \cup {"snapdel"}], 0)
           ELSE /\ run' = Finish(r, 0)
                /\ UNCHANGED <<trigState, trigLocal>>
    /\ UNCHANGED <<race, bulk, tool, sf_cli, valVars, chkVars, rt, nExt>>

\* somebody else activates or deactivates a trigger in an org
ExtTrig ==
    /\ tool = "trigger"
    /\ Idle
    /\ nExt < MaxExt
    /\ \E org \in Orgs, t \in Triggers :
        remoteTrig' = [remoteTrig EXCEPT ![org][t] =
                          IF @ = "Active" THEN "Inactive" ELSE "Active"]
    /\ nExt' = nExt + 1
    /\ rt' = NoRt
    /\ UNCHANGED <<race, bulk, tool, sf_cli, run, trigState, trigLocal, valVars, chkVars>>

\* ------------------------------------------------------------------ two disables side by side
\* Two `sf_triggers.py --target-org A` runs started side by side. Both work in
\* ~/Sandcastle/apextriggers, so the state file and the meta files are shared.
Procs == {1, 2}

\* the triggers a run has changed so far: none
NoChange == [t \in Triggers |-> None]

\* a run ahead of its first statement
NewProc(reset) ==
    [pc |-> "check", reset |-> reset, todo |-> {}, changed |-> NoChange, exit |-> -1]

\* no run works side by side with another
NoRace == [procs |-> [p \in Procs |-> NewProc(FALSE)],
           wrote |-> FALSE, late |-> FALSE, over |-> FALSE, made |-> {}]

RaceEnd(r, p, code) == [r EXCEPT !.procs[p].pc = "done", !.procs[p].exit = code]

\* get_trigger_metadata_files: the meta files in the triggers directory
get_trigger_metadata_files(local) == {t \in Triggers : local[t] # None}

\* read_trigger_status of one meta file
read_trigger_status(local, t) == IF local[t] = None THEN "Unknown" ELSE local[t]

\* one turn of the loop of disable_triggers: the meta files afterwards
update_trigger_status(local, t) ==
    IF read_trigger_status(local, t) = "Active"
    THEN [local EXCEPT ![t] = "Inactive"]
    ELSE local

\* one turn of the loop of disable_triggers: changed_triggers afterwards
changed_after(changed, local, t) ==
    IF read_trigger_status(local, t) = "Active"
    THEN [changed EXCEPT ![t] = "Active"]
    ELSE changed

\* main(): --reset, then the check that refuses a disable over a state file
RaceCheck ==
    /\ tool = "race"
    /\ \E p \in Procs :
        /\ race.procs[p].pc = "check"
        /\ IF race.procs[p].reset
           THEN /\ trigState' = [exists |-> FALSE, items |-> NoFile]
                /\ trigLocal' = NoFile
                /\ race' = [race EXCEPT !.procs[p].pc = "retrieve",
                                        !.late = @ \/ race.wrote]
           ELSE /\ race' = IF state_blocks_disable(trigState.exists, FALSE)
                           THEN RaceEnd(race, p, 1)
                           ELSE [race EXCEPT !.procs[p].pc = "retrieve",
                                             !.late = @ \/ race.wrote]
                /\ UNCHANGED <<trigState, trigLocal>>
    /\ UNCHANGED <<bulk, tool, run, sf_cli, remoteTrig, valVars, chkVars, rt, nExt>>

\* retrieve_triggers, then the glob at the head of disable_triggers
RaceRetrieve ==
    /\ tool = "race"
    /\ \E p \in Procs, out \in ToolOutcomes :
        /\ race.procs[p].pc = "retrieve"
        /\ trigLocal' = IF Applied(out)
                        THEN retrieved_files(trigLocal, remoteTrig["A"])
                        ELSE trigLocal
        /\ race' = IF ~ExitZero(out) THEN RaceEnd(race, p, 1)
                   ELSE IF get_trigger_metadata_files(trigLocal') = {}
                   THEN RaceEnd(race, p, 0)
                   ELSE [race EXCEPT !.procs[p].pc = "scan",
                                     !.procs[p].todo = get_trigger_metadata_files(trigLocal')]
    /\ UNCHANGED <<bulk, tool, run, sf_cli, remoteTrig, trigState, valVars, chkVars, rt, nExt>>

\* one turn of the loop of disable_triggers; after the last one, `if not changed`
RaceScan ==
    /\ tool = "race"
    /\ \E p \in Procs :
        /\ race.procs[p].pc = "scan"
        /\ \E t \in race.procs[p].todo :
            LET changed == changed_after(race.procs[p].changed, trigLocal, t)
                todo    == race.procs[p].todo \ {t}
                r       == [race EXCEPT !.procs[p].changed = changed,
                                        !.procs[p].todo = todo]
            IN
            /\ trigLocal' = update_trigger_status(trigLocal, t)
            /\ race' = IF todo # {} THEN r
                       ELSE IF StateEmpty(changed) THEN RaceEnd(r, p, 0)
                       ELSE [r EXCEPT !.procs[p].pc = "save"]
    /\ UNCHANGED <<bulk, tool, run, sf_cli, remoteTrig, trigState, valVars, chkVars, rt, nExt>>

\* save_state(changed, force=args.reset)
RaceSave ==
    /\ tool = "race"
    /\ \E p \in Procs :
        /\ race.procs[p].pc = "save"
        /\ trigState' = save_state(trigState, race.procs[p].changed, race.procs[p].reset)
        /\ race' = [race EXCEPT !.procs[p].pc = "deploy",
                                !.wrote = TRUE,
                                !.over = @ \/ (trigState.exists /\ trigState' # trigState)]
    /\ UNCHANGED <<bulk, tool, run, sf_cli, remoteTrig, trigLocal, valVars, chkVars, rt, nExt>>

\* deploy_triggers and the exit code of the run
RaceDeploy ==
    /\ tool = "race"
    /\ \E p \in Procs, out \in ToolOutcomes :
        /\ race.procs[p].pc = "deploy"
        /\ remoteTrig' = IF Applied(out)
                         THEN [remoteTrig EXCEPT !["A"] = deployed_remote(@, trigLocal)]
                         ELSE remoteTrig
        /\ race' = [RaceEnd(race, p, IF ExitZero(out) THEN 0 ELSE 1)
                       EXCEPT !.made = @ \cup {t \in Triggers :
                                                  /\ remoteTrig["A"][t] = "Active"
                                                  /\ remoteTrig'["A"][t] = "Inactive"}]
    /\ UNCHANGED <<bulk, tool, run, sf_cli, trigState, trigLocal, valVars, chkVars, rt, nExt>>

\* ------------------------------------------------------------------ validation-rule tool
NoRules == [r \in Rules |-> None]
NoCache == [exists |-> FALSE, objs |-> {}, rules |-> NoRules,
            backupDir |-> FALSE, backup |-> NoRules]
\* what `sf project generate` leaves at the project root
FreshProject == [NoCache EXCEPT !.exists = TRUE]

\* sf_validations.run_sf_command: it returns only if the process exits 0 and
\* the JSON status is 0, and raises otherwise
run_sf_command_ok(out) == out = "ok"

\* the rule files of obj after `sf project retrieve start --metadata CustomObject:obj`
retrieved_rules(obj, remote) ==
    [r \in Rules |-> IF r \in RulesOf(obj) THEN remote[r] ELSE None]

\* the rule files under objects/<obj>/validationRules
rule_files(cache, obj) ==
    IF obj \in cache.objs THEN {r \in Rules : cache.rules[r] # None} ELSE {}

\* a variant of backed_up that copies only the rule files that are active
backed_up_active_only(cache, obj) ==
    [r \in Rules |-> IF r \in Rules /\ obj \in cache.objs /\ cache.rules[r] = "T"
                     THEN cache.rules[r] ELSE cache.backup[r]]

\* disable: shutil.copy(rule_file, original_rules_dir) for every rule file
backed_up(cache, obj) ==
    [r \in Rules |-> IF r \in rule_files(cache, obj) THEN cache.rules[r]
                     ELSE cache.backup[r]]

\* disable: <active>true</active> becomes false
disabled_rules(cache, obj) ==
    [r \in Rules |-> IF r \in rule_files(cache, obj) /\ cache.rules[r] = "T"
                     THEN "F" ELSE cache.rules[r]]

\* a variant of modified_count that counts every rule file
modified_count_all(cache, obj) == Cardinality(rule_files(cache, obj))

modified_count(cache, obj) ==
    Cardinality({r \in rule_files(cache, obj) : cache.rules[r] = "T"})

skipped_count(cache, obj) ==
    Cardinality({r \in rule_files(cache, obj) : cache.rules[r] # "T"})

\* the files of original_validation_rules/
backup_files(cache) ==
    IF cache.backupDir THEN {r \in Rules : cache.backup[r] # None} ELSE {}

\* enable: every backed-up file is copied over objects/<obj>/validationRules
restored_rules(cache) ==
    [r \in Rules |-> IF r \in backup_files(cache) THEN cache.backup[r]
                     ELSE cache.rules[r]]

\* sf project deploy start --source-dir ...: the rule files in the cache reach the org
deployed_rules(remote, cache) ==
    [r \in Rules |-> IF cache.rules[r] # None THEN cache.rules[r] ELSE remote[r]]

\* a variant of no_rules_found that always finds rules
no_rules_found_never(cache, obj) == FALSE

\* sync: `not validation_rules_path.exists() or not list(...glob(...))`
\* (disable: `not validation_rules_path.exists()`)
no_rules_found(cache, obj) == rule_files(cache, obj) = {}

\* a variant of object_cached that finds every object in the cache
object_cached_always(cache, obj) == TRUE

\* enable: cached_object_path.exists()
object_cached(cache, obj) == obj \in cache.objs

\* manage_validation_rules_in_temp_project: the gate and the checks of the mode
\* (exit 0: the function returns, exit 1: it raises RuntimeError)
ValBegin ==
    /\ tool = "validation"
    /\ Idle
    /\ \E org \in Orgs, obj \in Objects, mode \in {"disable", "enable", "sync"},
          prim \in PrimaryOutcomes, fb \in FallbackOutcomes :
        \E marker \in (IF is_sandbox(prim, fb) = "err" THEN BOOLEAN ELSE {FALSE}),
           src \in (IF mode = "sync" THEN (Orgs \ {org}) \cup {None} ELSE {None}) :
        LET gate == validation_gate(is_sandbox(prim, fb), marker)
            r    == [NewRun(mode, org, obj, FALSE, prim, fb, gate)
                        EXCEPT !.src = src,
                               !.r0 = IF mode = "disable" THEN remoteRules[org] ELSE None,
                               !.had = valCache.backupDir]
        IN
        run' = IF gate = "raise" THEN Finish(r, 1)
               ELSE IF mode = "enable"
               THEN (IF ~valCache.exists THEN Finish(r, 0) ELSE [r EXCEPT !.pc = "local"])
               ELSE IF mode = "sync" /\ src = None THEN Finish(r, 1)
               ELSE [r EXCEPT !.pc = "setup"]
    /\ rt' = RtBegin
    /\ UNCHANGED <<race, bulk, tool, sf_cli, trigVars, valVars, chkVars, nExt>>

\* disable / sync: rmtree(project_root), `sf project generate`, project_root.exists()
ValSetup ==
    /\ tool = "validation"
    /\ run.pc = "setup"
    /\ \E gen \in {"created", "not_created", "fail"} :
        LET r == [run EXCEPT !.ev = @ \cup (IF valCache.backupDir THEN {"snapdel"} ELSE {})] IN
        /\ valCache' = IF gen = "created" THEN FreshProject ELSE NoCache
        /\ run' = IF gen = "created" THEN [r EXCEPT !.pc = "retrieve"] ELSE Finish(r, 1)
    /\ UNCHANGED <<race, bulk, tool, sf_cli, trigVars, remoteRules, chkVars, rt, nExt>>

\* disable / sync: retrieve CustomObject:<obj> from the target (sync: source) org
ValRetrieve ==
    /\ tool = "validation"
    /\ run.pc = "retrieve"
    /\ \E out \in ToolOutcomes :
        LET from == IF run.mode = "sync" THEN run.src ELSE run.org
            r    == [run EXCEPT !.ev = @ \cup {"retrieve"}]
        IN
        IF run_sf_command_ok(out)
        THEN /\ valCache' = [valCache EXCEPT !.objs = {run.obj},
                                !.rules = retrieved_rules(run.obj, remoteRules[from])]
             /\ run' = IF no_rules_found(valCache', run.obj) THEN Finish(r, 0)
                       ELSE [r EXCEPT !.pc = IF run.mode = "sync" THEN "deploy" ELSE "local"]
        ELSE /\ run' = Finish(r, 1)
             /\ UNCHANGED valCache
    /\ UNCHANGED <<race, bulk, tool, sf_cli, trigVars, remoteRules, chkVars, rt, nExt>>

\* disable: back the rule files up and set them inactive;
\* enable: find the backup and copy it over the rule files
ValLocal ==
    /\ tool = "validation"
    /\ run.pc = "local"
    /\ IF run.mode = "disable"
       THEN /\ valCache' = [valCache EXCEPT !.backupDir = TRUE,
                               !.backup = backed_up(valCache, run.obj),
                               !.rules = disabled_rules(valCache, run.obj)]
            /\ LET \* the summary table: "Modified", "Already inactive"
                   r == [run EXCEPT !.modified = modified_count(valCache, run.obj),
                                    !.skipped = skipped_count(valCache, run.obj)]
               IN
               run' = IF modified_count(valCache, run.obj) > 0
                      THEN [r EXCEPT !.pc = "deploy", !.ev = @ \cup {"snapwrite", "localedit"}]
                      ELSE Finish([r EXCEPT !.ev = @ \cup {"snapwrite"}], 0)
       ELSE IF ~object_cached(valCache, run.obj)
       THEN /\ run' = Finish(run, 1)
            /\ UNCHANGED valCache
       ELSE IF backup_files(valCache) = {}
       THEN /\ run' = Finish(run, 0)
            /\ UNCHANGED valCache
       ELSE /\ valCache' = [valCache EXCEPT !.rules = restored_rules(valCache)]
            /\ run' = [run EXCEPT !.pc = "deploy", !.ev = @ \cup {"localedit"}]
    /\ UNCHANGED <<race, bulk, tool, sf_cli, trigVars, remoteRules, chkVars, rt, nExt>>

\* the deploy that ends each mode
ValDeploy ==
    /\ tool = "validation"
    /\ run.pc = "deploy"
    /\ \E out \in ToolOutcomes :
        LET r == [run EXCEPT !.ev = @ \cup {"deploy"}, !.dep = out] IN
        /\ remoteRules' = IF Applied(out)
                          THEN [remoteRules EXCEPT ![run.org] = deployed_rules(@, valCache)]
                          ELSE remoteRules
        /\ run' = Finish(r, IF run_sf_command_ok(out) THEN 0 ELSE 1)
    /\ UNCHANGED <<race, bulk, tool, sf_cli, trigVars, valCache, chkVars, rt, nExt>>

\* somebody else activates or deactivates a validation rule in an org
ExtRule ==
    /\ tool = "validation"
    /\ Idle
    /\ nExt < MaxExt
    /\ \E org \in Orgs, r \in Rules :
        remoteRules' = [remoteRules EXCEPT ![org][r] = IF @ = "T" THEN "F" ELSE "T"]
    /\ nExt' = nExt + 1
    /\ rt' = NoRt
    /\ UNCHANGED <<race, bulk, tool, sf_cli, run, trigVars, valCache, chkVars>>

\* ------------------------------------------------------------------ checkbox tool
NoBoxes == [f \in Fields |-> None]
NoChkState == [exists |-> FALSE, org |-> None, boxes |-> NoBoxes]
\* what the operator types at a prompt, stripped and lower-cased
Responses == {"y", "yes", "n", ""}

\* what the operator types at the production prompt, as typed
RawAnswers == {"y", "yes", " Yes ", "YES", "Y", "n", "no", "", "yes!"}

\* .strip().lower()
strip_lower(raw) ==
    IF raw \in {" Yes ", "YES"} THEN "yes"
    ELSE IF raw = "Y" THEN "y"
    ELSE raw

\* a variant of the gate that takes any answer for a confirmation
checkbox_gate_any_answer(isb, resp) ==
    IF isb = "err" THEN "raise"
    ELSE IF isb = "T" THEN "proceed"
    ELSE "confirmed"

\* CustomSettingManager.verify_sandbox: "exit0" is sys.exit(0) after a refusal
checkbox_gate(isb, resp) ==
    IF isb = "err" THEN "raise"
    ELSE IF isb = "T" THEN "proceed"
    ELSE IF resp \in {"y", "yes"} THEN "confirmed"
    ELSE "exit0"

\* SalesforceCLI._execute_sf_command: it returns only if the process exits 0
\* and the JSON status is 0
execute_ok(out) == out = "ok"

\* get_checkbox_fields: the updateable boolean fields of the custom setting
checkbox_fields(remote) == {f \in Fields : remote[f] # None}

\* check_status: the value of every checkbox field
check_status(remote) ==
    [f \in Fields |-> IF f \in checkbox_fields(remote) THEN remote[f] ELSE None]

\* update_checkboxes: the record after `data update record` with every field = value
updated_record(remote, value) ==
    [f \in Fields |-> IF f \in checkbox_fields(remote) THEN value ELSE remote[f]]

\* CustomSettingManager.save_state
saved_file(org, state) == [exists |-> TRUE, org |-> org, boxes |-> state]

\* restore_state: the record after the update built from saved_state.get(field, False)
restored_record(remote, saved) ==
    [f \in Fields |-> IF f \in checkbox_fields(remote)
                      THEN (IF saved[f] # None THEN saved[f] ELSE "F")
                      ELSE remote[f]]

\* main() of sf_custom_settings.py: the gate and get_checkbox_fields
ChkBegin ==
    /\ tool = "checkbox"
    /\ Idle
    /\ \E org \in Orgs, mode \in {"check_all", "uncheck_all", "restore", "status"},
          prim \in PrimaryOutcomes, fb \in FallbackOutcomes :
        \E raw \in (IF is_sandbox(prim, fb) = "F" THEN RawAnswers ELSE {""}) :
        \E describe \in (IF checkbox_gate(is_sandbox(prim, fb), strip_lower(raw))
                               \in {"raise", "exit0"}
                         THEN {"ok"} ELSE {"ok", "fail"}) :
        LET resp == strip_lower(raw)
            gate == checkbox_gate(is_sandbox(prim, fb), resp)
            r    == [NewRun(mode, org, None, FALSE, prim, fb, gate)
                        EXCEPT !.r0 = IF mode \in {"check_all", "uncheck_all"}
                                      THEN remoteChk[org] ELSE None,
                               !.had = chkState.exists,
                               !.confirm = IF is_sandbox(prim, fb) # "F" THEN None
                                           ELSE IF resp \in {"y", "yes"} THEN "yes"
                                           ELSE "no"]
        IN
        run' = IF gate = "raise" THEN Finish(r, 1)
               ELSE IF gate = "exit0" THEN Finish(r, 0)
               ELSE IF ~execute_ok(describe) \/ checkbox_fields(remoteChk[org]) = {}
               THEN Finish([r EXCEPT !.ev = @ \cup {"describe"}], 1)
               ELSE [r EXCEPT !.pc = "work", !.ev = @ \cup {"describe"}]
    /\ rt' = RtBegin
    /\ UNCHANGED <<race, bulk, tool, sf_cli, trigVars, valVars, chkVars, nExt>>

\* --status: check_status and display_status
ChkStatus ==
    /\ tool = "checkbox"
    /\ run.pc = "work"
    /\ run.mode = "status"
    /\ \E query \in {"ok", "fail"} :
        run' = Finish([run EXCEPT !.ev = @ \cup {"query"}], IF execute_ok(query) THEN 0 ELSE 1)
    /\ UNCHANGED <<race, bulk, tool, sf_cli, trigVars, valVars, chkVars, rt, nExt>>

\* a variant of updates_checkboxes under which every mode updates
updates_checkboxes_any(mode) == TRUE

\* main(): the branches that call update_checkboxes
updates_checkboxes(mode) == mode \in {"check_all", "uncheck_all"}

\* --check-all / --uncheck-all: update_checkboxes
ChkUpdate ==
    /\ tool = "checkbox"
    /\ run.pc = "work"
    /\ updates_checkboxes(run.mode)
    /\ \E query \in {"ok", "fail"}, out \in ToolOutcomes :
        LET value == IF run.mode = "check_all" THEN "T" ELSE "F" IN
        IF ~execute_ok(query)
        THEN /\ run' = Finish([run EXCEPT !.ev = @ \cup {"query"}], 1)
             /\ UNCHANGED remoteChk
        ELSE /\ remoteChk' = IF Applied(out)
                             THEN [remoteChk EXCEPT ![run.org] = updated_record(@, value)]
                             ELSE remoteChk
             /\ run' = IF execute_ok(out)
                       THEN [run EXCEPT !.pc = "save", !.dep = out,
                                        !.orig = check_status(remoteChk[run.org]),
                                        !.ev = @ \cup {"query", "update"}]
                       ELSE Finish([run EXCEPT !.dep = out, !.ev = @ \cup {"query", "update"}], 1)
    /\ UNCHANGED <<race, bulk, tool, sf_cli, trigVars, valVars, chkState, rt, nExt>>

\* save_state(original_state), then check_status / display_status
ChkSave ==
    /\ tool = "checkbox"
    /\ run.pc = "save"
    /\ chkState' = saved_file(run.org, run.orig)
    /\ \E query \in {"ok", "fail"} :
        LET r == [run EXCEPT !.ev = @ \cup {"snapwrite"}] IN
        run' = IF ~execute_ok(query) THEN Finish(r, 1)
               ELSE IF run.mode = "check_all" THEN [r EXCEPT !.pc = "loop"]
               ELSE Finish(r, 0)
    /\ UNCHANGED <<race, bulk, tool, sf_cli, trigVars, valVars, remoteChk, rt, nExt>>

\* a variant of the in-loop decision that unchecks on every turn
uncheck_requested_always(key_pressed, response) == TRUE

\* a variant of the in-loop decision that never unchecks
uncheck_requested_never(key_pressed, response) == FALSE

\* `if key_pressed:` ... `if response in ['yes', 'y']:`
uncheck_requested(key_pressed, response) ==
    key_pressed /\ response \in {"yes", "y"}

\* how a turn of the loop went, for the record of the run
loop_answer(key_pressed, response) ==
    IF ~key_pressed THEN "timeout"
    ELSE IF response \in {"yes", "y"} THEN "yes"
    ELSE "no"

\* one turn of the reminder loop
ChkLoop ==
    /\ tool = "checkbox"
    /\ run.pc = "loop"
    /\ \E key_pressed \in BOOLEAN :
       \E response \in (IF key_pressed THEN Responses ELSE {""}) :
        LET counted == run.countdown + WaitSeconds
            \* send_desktop_notification every NotifyEvery seconds
            r == [run EXCEPT !.countdown = IF counted >= NotifyEvery THEN 0 ELSE counted,
                             !.answer = loop_answer(key_pressed, response)]
        IN
        IF ~uncheck_requested(key_pressed, response)
        THEN /\ run' = r
             /\ UNCHANGED remoteChk
        ELSE \* update_checkboxes(checkbox_fields, False)
             \E query \in {"ok", "fail"}, out \in ToolOutcomes :
             IF ~execute_ok(query)
             THEN /\ run' = Finish([r EXCEPT !.ev = @ \cup {"query"}], 1)
                  /\ UNCHANGED remoteChk
             ELSE /\ remoteChk' = IF Applied(out)
                                  THEN [remoteChk EXCEPT ![run.org] = updated_record(@, "F")]
                                  ELSE remoteChk
                  /\ run' = IF execute_ok(out)
                            THEN [r EXCEPT !.pc = "save", !.mode = "check_all_unchecked",
                                           !.dep = out, !.ev = @ \cup {"query", "update"}]
                            ELSE Finish([r EXCEPT !.dep = out,
                                                  !.ev = @ \cup {"query", "update"}], 1)
    /\ UNCHANGED <<race, bulk, tool, sf_cli, trigVars, valVars, chkState, rt, nExt>>

\* Ctrl-C in the reminder loop: main() catches KeyboardInterrupt and exits 0
ChkInterrupt ==
    /\ tool = "checkbox"
    /\ run.pc = "loop"
    /\ run' = Finish([run EXCEPT !.answer = None], 0)
    /\ UNCHANGED <<race, bulk, tool, sf_cli, trigVars, valVars, chkVars, rt, nExt>>

\* --restore: restore_state, then check_status / display_status
ChkRestore ==
    /\ tool = "checkbox"
    /\ run.pc = "work"
    /\ run.mode = "restore"
    /\ IF ~chkState.exists \/ chkState.org # run.org
       THEN \* load_state raises
            /\ run' = Finish(run, 1)
            /\ UNCHANGED chkVars
       ELSE \E query \in {"ok", "fail"}, out \in ToolOutcomes :
            IF ~execute_ok(query)
            THEN /\ run' = Finish([run EXCEPT !.ev = @ \cup {"query"}], 1)
                 /\ UNCHANGED chkVars
            ELSE /\ remoteChk' = IF Applied(out)
                                 THEN [remoteChk EXCEPT ![run.org] =
                                          restored_record(@, chkState.boxes)]
                                 ELSE remoteChk
                 /\ IF execute_ok(out)
                    THEN \* STATE_FILE.unlink(), then the final check_status
                         /\ chkState' = NoChkState
                         /\ \E query2 \in {"ok", "fail"} :
                              run' = Finish([run EXCEPT !.dep = out,
                                                !.ev = @ \cup {"query", "update", "snapdel"}],
                                            IF execute_ok(query2) THEN 0 ELSE 1)
                    ELSE /\ run' = Finish([run EXCEPT !.dep = out,
                                              !.ev = @ \cup {"query", "update"}], 1)
                         /\ UNCHANGED chkState
    /\ UNCHANGED <<race, bulk, tool, sf_cli, trigVars, valVars, rt, nExt>>

\* somebody else ticks or unticks a checkbox, or adds a checkbox field
ExtChk ==
    /\ tool = "checkbox"
    /\ Idle
    /\ nExt < MaxExt
    /\ \E org \in Orgs, f \in Fields, v \in Bool :
        /\ remoteChk[org][f] # v
        /\ remoteChk' = [remoteChk EXCEPT ![org][f] = v]
    /\ nExt' = nExt + 1
    /\ rt' = NoRt
    /\ UNCHANGED <<race, bulk, tool, sf_cli, run, trigVars, valVars, chkState>>

\* ------------------------------------------------------------------ verify_sandbox_org
\* a caller of sandcastle_utils.verify_sandbox_org (exit 1: it raised)
UtilVerify ==
    /\ tool = "util"
    /\ Idle
    /\ \E org \in Orgs, cliAvailable \in BOOLEAN,
          prim \in PrimaryOutcomes, fb \in FallbackOutcomes :
        \E marker \in (IF is_sandbox(prim, fb) = "err" THEN BOOLEAN ELSE {FALSE}) :
        LET gate == verify_sandbox_org(cliAvailable, is_sandbox(prim, fb), marker) IN
        run' = IF cliAvailable
               THEN Finish([NewRun("verify", org, None, FALSE, prim, fb, gate)
                               EXCEPT !.prim = prim, !.fb = fb],
                           IF gate = "raise" THEN 1 ELSE 0)
               ELSE \* the import of SalesforceCLI failed: nothing is queried
                    Finish([IdleRun EXCEPT !.mode = "verify", !.org = org,
                                           !.gate = gate, !.ev = {"gate"}], 0)
    /\ rt' = RtBegin
    /\ UNCHANGED <<race, bulk, tool, sf_cli, trigVars, valVars, chkVars, nExt>>

\* ------------------------------------------------------------------ SalesforceCLI
\* the operations of SalesforceCLI that modify data
MutatingOps == {"update_record", "create_record", "delete_record",
                "bulk_delete_records", "bulk_upsert"}

\* a variant of production_block that blocks nothing
production_block_off(isb) == FALSE

\* `if not self.is_sandbox(): raise RuntimeError(... PRODUCTION org ...)`
production_block(isb) == isb = "F"

\* what the operation hands back once its command has run
op_result(op, res) ==
    IF res.ret = "payload"
    THEN (IF op \in {"update_record", "delete_record"} THEN "True" ELSE "value")
    ELSE IF op = "delete_record" THEN "False"
    ELSE IF op = "bulk_upsert" THEN "failure_dict"
    ELSE "RuntimeError"

\* the record ids a query for `SELECT Id FROM <sobject>` can return
Ids == {"i1", "i2"}

\* the ways `subprocess.run(['sf', 'force', 'data', 'bulk', 'delete', ...])` ends
DeleteOutcomes == {"rc0", "rc1", "raise"}

\* no call of bulk_delete_records yet (or another operation since)
NoBulk == [called |-> FALSE, queried |-> FALSE, records |-> {}, excluded |-> {}, csv |-> {},
           created |-> FALSE, temp |-> FALSE, issued |-> FALSE, out |-> None, ret |-> None]

\* a variant of remaining_records that filters nothing out
remaining_records_all(records, excluded) == records

\* bulk_delete_records: `if excluded_ids: records = [rec ... not in excluded_ids]`
\* (excluded = {} stands for None and for the empty set alike)
remaining_records(records, excluded) ==
    IF excluded # {} THEN {rec \in records : rec \notin excluded} ELSE records

\* a variant of nothing_to_delete that always goes on to the delete command
nothing_to_delete_never(records) == FALSE

\* bulk_delete_records: `if not records: return {'success': True, ...}`
nothing_to_delete(records) == records = {}

\* bulk_delete_records: `os.remove(temp_csv_path)` behind subprocess.run
removed_after_run(out) == out \in {"rc0", "rc1"}

\* a variant of removed_on_exception that cleans nothing up
removed_on_exception_never(out, exists) == FALSE

\* bulk_delete_records: `except Exception: if os.path.exists(...): os.remove(...)`
removed_on_exception(out, exists) == out = "raise" /\ exists

\* bulk_delete_records behind its guard: what it wrote, ran, left and returned
bulk_delete_records(qok, records, excluded, out) ==
    LET rem == remaining_records(records, excluded)
        b   == [NoBulk EXCEPT !.called = TRUE, !.excluded = excluded]
    IN
    IF ~qok
    THEN \* _execute_sf_command raised: the RuntimeError leaves the function
         [b EXCEPT !.ret = "RuntimeError"]
    ELSE IF nothing_to_delete(rem)
    THEN [b EXCEPT !.queried = TRUE, !.records = records, !.ret = "success_dict"]
    ELSE [b EXCEPT !.queried = TRUE,
                   !.records = records,
                   !.csv = rem,
                   !.created = TRUE,
                   !.issued = TRUE,
                   !.out = out,
                   !.temp = ~removed_after_run(out)
                            /\ ~removed_on_exception(out, ~removed_after_run(out)),
                   !.ret = IF out = "rc0" THEN "success_dict" ELSE "failure_dict"]

\* one call of bulk_delete_records, its guard included
CliBulkDelete ==
    /\ tool = "cli"
    /\ Idle
    /\ \E org \in Orgs, prim \in PrimaryOutcomes, fb \in FallbackOutcomes,
          qok \in BOOLEAN, records \in SUBSET Ids, excluded \in SUBSET Ids,
          out \in DeleteOutcomes :
        LET isb == is_sandbox(prim, fb)
            r   == [NewRun("bulk_delete_records", org, None, FALSE, prim, fb, None)
                       EXCEPT !.ev = {"is_sandbox"}]
            b   == bulk_delete_records(qok, records, excluded, out)
        IN
        IF production_block(isb) \/ isb = "err"
        THEN /\ run' = Finish([r EXCEPT !.res = [NoRes EXCEPT
                                          !.ret = "RuntimeError",
                                          !.kind = IF isb = "F" THEN "production"
                                                   ELSE "failed"]], 1)
             /\ bulk' = [NoBulk EXCEPT !.called = TRUE, !.excluded = excluded,
                                       !.ret = "RuntimeError"]
        ELSE /\ run' = Finish([r EXCEPT !.ev = @ \cup {"query"}
                                              \cup (IF b.issued THEN {"write"} ELSE {}),
                                        !.res = [NoRes EXCEPT !.ret = b.ret]],
                              IF b.ret = "success_dict" THEN 0 ELSE 1)
             /\ bulk' = b
    /\ rt' = RtBegin
    /\ UNCHANGED <<race, tool, sf_cli, trigVars, valVars, chkVars, nExt>>

\* one invocation of one of the three executors
CliExecute ==
    /\ tool = "cli"
    /\ Idle
    /\ \E i \in Invocations :
        run' = Finish([IdleRun EXCEPT !.mode = "execute", !.inp = i, !.res = execute(i)],
                      IF execute(i).ret \in {"payload", "True"} THEN 0 ELSE 1)
    /\ rt' = RtBegin
    /\ UNCHANGED <<race, tool, sf_cli, trigVars, valVars, chkVars, nExt>>
    /\ bulk' = NoBulk

\* one data-modifying operation of SalesforceCLI: the guard, then the command
CliMutate ==
    /\ tool = "cli"
    /\ Idle
    /\ \E op \in MutatingOps, org \in Orgs,
          prim \in PrimaryOutcomes, fb \in FallbackOutcomes :
        \E i \in {j \in Invocations : j.exec = "cli" /\ j.binary /\ ~j.message /\ ~j.stderr},
           deleted \in BOOLEAN :
        LET isb == is_sandbox(prim, fb)
            r   == [NewRun(op, org, None, FALSE, prim, fb, None) EXCEPT !.ev = {"is_sandbox"}]
        IN
        run' = IF production_block(isb)
               THEN Finish([r EXCEPT !.res = [NoRes EXCEPT !.ret = "RuntimeError",
                                                           !.kind = "production"]], 1)
               ELSE IF isb = "err"
               THEN Finish([r EXCEPT !.res = [NoRes EXCEPT !.ret = "RuntimeError",
                                                           !.kind = "failed"]], 1)
               ELSE IF op = "bulk_delete_records"
               THEN \* the query of the ids through _execute_sf_command, then
                    \* `sf force data bulk delete` through subprocess.run
                    LET res == execute_sf_command(i) IN
                    IF res.ret # "payload"
                    THEN Finish([r EXCEPT !.ev = @ \cup {"query"}, !.inp = i, !.res = res], 1)
                    ELSE Finish([r EXCEPT !.ev = @ \cup {"query", "write"}, !.inp = i,
                                          !.res = [NoRes EXCEPT !.ret =
                                                      IF deleted THEN "success_dict"
                                                      ELSE "failure_dict"]],
                                IF deleted THEN 0 ELSE 1)
               ELSE LET res == execute_sf_command(i) IN
                    Finish([r EXCEPT !.ev = @ \cup {"write"}, !.inp = i,
                                     !.res = [res EXCEPT !.ret = op_result(op, res)]],
                           IF res.ret = "payload" THEN 0 ELSE 1)
    /\ rt' = RtBegin
    /\ UNCHANGED <<race, tool, sf_cli, trigVars, valVars, chkVars, nExt>>
    /\ bulk' = NoBulk

\* ------------------------------------------------------------------ one SalesforceCLI instance
\* the query texts: "SELECT IsSandbox FROM Organization LIMIT 1" and another one
OrgQuery == "organization"
Queries == {OrgQuery, "q1"}
\* the record lists a query yields are the outcomes of the Organization query:
\* "norec" is the empty list
Records == PrimaryOutcomes \ {"fail"}
HasRecord(v) == v \in {"rec_true", "rec_false", "rec_nofield"}

\* an instance URL, cut into pieces
InstanceUrls ==
    {<<"https://acme", ".my.", "salesforce.com">>,
     <<"https://acme--dev", ".sandbox.", "my.salesforce.com">>,
     <<"https://ACME--dev", ".SANDBOX.", "my.salesforce.com">>,
     <<"https://sandbox", ".my.", "salesforce.com">>}
\* what `sf org display` yields: it fails, a result without instanceUrl, a
\* result with one
Displays ==
    {[kind |-> k, url |-> <<>>] : k \in {"fail", "nourl"}}
        \cup {[kind |-> "url", url |-> u] : u \in InstanceUrls}
NoInfo == [kind |-> None, url |-> <<>>]

\* str.lower()
lower(piece) ==
    IF piece = ".SANDBOX." THEN ".sandbox."
    ELSE IF piece = "https://ACME--dev" THEN "https://acme--dev"
    ELSE piece

\* a variant of the marker test that does not lower-case the URL
has_sandbox_marker_exact(url) == \E i \in DOMAIN url : url[i] = ".sandbox."

\* '.sandbox.' in instance_url, instance_url being lower-cased
has_sandbox_marker(url) == \E i \in DOMAIN url : lower(url[i]) = ".sandbox."

\* the fallback signal is_sandbox makes of what get_org_info returned
fallback_of(info) ==
    IF info.kind = "url"
    THEN (IF has_sandbox_marker(info.url) THEN "url_sandbox" ELSE "url_other")
    ELSE info.kind

\* a row of logs/queries.csv
log_query(log, ts, org, cached, query) ==
    Append(log, [ts |-> ts, org |-> org, cached |-> cached, query |-> query])

\* a variant of the cache test that never finds the query
query_cached_never(cache, query) == FALSE

\* `if query in self._query_cache`
query_cached(cache, query) == cache[query] # None

\* a variant that stores nothing for a query that failed
cache_after_failure_none(cache, query) == cache

\* `self._query_cache[query] = []` in the except branch
cache_after_failure(cache, query) == [cache EXCEPT ![query] = "norec"]

NoCall == [query |-> None, ret |-> None, was |-> None, remote |-> FALSE]

NewCli(org) ==
    [org |-> org, qcache |-> [q \in Queries |-> None], info |-> NoInfo,
     names |-> None, log |-> <<>>, calls |-> 0,
     \* history
     nCalls |-> [q \in Queries |-> 0], nExec |-> [q \in Queries |-> 0],
     failed |-> {}, sent |-> 0, hits |-> 0, lastq |-> NoCall,
     nIs |-> 0, first |-> None, last |-> None, fresh |-> None,
     seenPrim |-> None, seenInfo |-> NoInfo, consulted |-> FALSE]

\* SalesforceCLI.query_records: the instance afterwards and what the caller
\* gets (the records, or "RuntimeError")
query_records(c, query, out) ==
    LET c0 == [c EXCEPT !.calls = @ + 1, !.nCalls[query] = @ + 1] IN
    IF query_cached(c.qcache, query)
    THEN [c |-> [c0 EXCEPT !.log = log_query(@, c.calls, c.org, TRUE, query),
                           !.hits = @ + 1,
                           !.lastq = [query |-> query, ret |-> c.qcache[query],
                                      was |-> c.qcache[query], remote |-> FALSE]],
          ret |-> c.qcache[query]]
    ELSE LET c1 == [c0 EXCEPT !.log = log_query(@, c.calls, c.org, FALSE, query),
                              !.nExec[query] = @ + 1,
                              !.sent = @ + 1]
         IN
         IF out = "fail"
         THEN [c |-> [c1 EXCEPT !.qcache = cache_after_failure(@, query),
                                !.failed = @ \cup {query},
                                !.lastq = [query |-> query, ret |-> "RuntimeError",
                                           was |-> c.qcache[query], remote |-> TRUE]],
               ret |-> "RuntimeError"]
         ELSE [c |-> [c1 EXCEPT !.qcache[query] = out,
                                !.lastq = [query |-> query, ret |-> out,
                                           was |-> c.qcache[query], remote |-> TRUE]],
               ret |-> out]

\* SalesforceCLI.get_organization_details: records[0], or None ("norec")
get_organization_details(c, out) ==
    LET r == query_records(c, OrgQuery, out) IN
    [c |-> r.c, ret |-> IF HasRecord(r.ret) THEN r.ret ELSE "norec"]

\* a variant of the org-info cache test that never finds the entry
org_info_cached_never(info) == FALSE

\* `if cache_key in self._org_info_cache`
org_info_cached(info) == info.kind # None

\* SalesforceCLI.get_org_info: kind "fail" is the exception it re-raises
get_org_info(c, disp) ==
    IF org_info_cached(c.info) THEN [c |-> c, ret |-> c.info]
    ELSE IF disp.kind = "fail" THEN [c |-> c, ret |-> disp]
    ELSE [c |-> [c EXCEPT !.info = disp], ret |-> disp]

\* the instance is created
SessNew ==
    /\ tool = "session"
    /\ sf_cli.org = None
    /\ \E org \in Orgs : sf_cli' = NewCli(org)
    /\ UNCHANGED <<race, bulk, tool, run, trigVars, valVars, chkVars, rt, nExt>>

\* one call of query_records
SessQuery ==
    /\ tool = "session"
    /\ sf_cli.org # None
    /\ sf_cli.calls < MaxCalls
    /\ \E query \in Queries, out \in PrimaryOutcomes :
        sf_cli' = query_records(sf_cli, query, out).c
    /\ UNCHANGED <<race, bulk, tool, run, trigVars, valVars, chkVars, rt, nExt>>

\* one call of is_sandbox; prim and disp are what the tool would answer now
SessIsSandbox ==
    /\ tool = "session"
    /\ sf_cli.org # None
    /\ sf_cli.calls < MaxCalls
    /\ \E prim \in PrimaryOutcomes, disp \in Displays :
        LET d    == get_organization_details(sf_cli, prim)
            g    == get_org_info(d.c, disp)
            c1   == IF HasRecord(d.ret) THEN d.c ELSE g.c
            info == IF HasRecord(d.ret) THEN NoInfo ELSE g.ret
            ret  == is_sandbox(d.ret, fallback_of(info))
        IN
        sf_cli' = [c1 EXCEPT !.nIs = @ + 1,
                             !.first = IF @ = None /\ ret # "err" THEN ret ELSE @,
                             !.last = ret,
                             !.fresh = is_sandbox(prim, fallback_of(disp)),
                             !.seenPrim = d.ret,
                             !.seenInfo = info,
                             !.consulted = ~HasRecord(d.ret)]
    /\ UNCHANGED <<race, bulk, tool, run, trigVars, valVars, chkVars, rt, nExt>>

\* one call of get_record_by_name: its own cache, the query goes straight to
\* _execute_sf_command (as does the query of check_triggers)
SessLookup ==
    /\ tool = "session"
    /\ sf_cli.org # None
    /\ sf_cli.calls < MaxCalls
    /\ \E out \in {"found", "missing", "fail"} :
        sf_cli' = IF sf_cli.names # None
                  THEN [sf_cli EXCEPT !.calls = @ + 1, !.hits = @ + 1]
                  ELSE [sf_cli EXCEPT !.calls = @ + 1, !.sent = @ + 1,
                                      !.names = IF out = "fail" THEN @ ELSE out]
    /\ UNCHANGED <<race, bulk, tool, run, trigVars, valVars, chkVars, rt, nExt>>

\* ------------------------------------------------------------------ specification
\* the orgs as the behaviour finds them: org A in any state of the metadata the
\* tool works on, org B and the other metadata in one
RemoteTrig0 == [o \in Orgs |-> [t \in Triggers |-> "Active"]]
RemoteRules0 == [o \in Orgs |-> [r \in Rules |-> "T"]]
RemoteChk0 == [o \in Orgs |-> [f \in Fields |-> IF f = "f1" THEN "F" ELSE None]]

Init ==
    /\ tool \in Tools
    /\ run = IdleRun
    /\ sf_cli = NewCli(None)
    /\ remoteTrig \in (IF tool \in {"trigger", "race"}
                       THEN {[RemoteTrig0 EXCEPT !["A"] = a] : a \in [Triggers -> TrigStatus]}
                       ELSE {RemoteTrig0})
    /\ trigState = [exists |-> FALSE, items |-> NoFile]
    /\ trigLocal = NoFile
    /\ remoteRules \in (IF tool = "validation"
                        THEN {[RemoteRules0 EXCEPT !["A"] = a] : a \in [Rules -> Bool]}
                        ELSE {RemoteRules0})
    /\ valCache = NoCache
    /\ remoteChk \in (IF tool = "checkbox"
                      THEN {[RemoteChk0 EXCEPT !["A"] = a] :
                               a \in {b \in [Fields -> Bool \cup {None}] : b["f1"] # None}}
                      ELSE {RemoteChk0})
    /\ chkState = NoChkState
    /\ race \in (IF tool = "race"
                 THEN {[NoRace EXCEPT !.procs = [p \in Procs |-> NewProc(reset[p])]] :
                          reset \in [Procs -> BOOLEAN]}
                 ELSE {NoRace})
    /\ bulk = NoBulk
    /\ rt = NoRt
    /\ nExt = 0

Next ==
    \/ TrigBegin
    \/ TrigRetrieve
    \/ TrigLocal
    \/ TrigDeploy
    \/ ExtTrig
    \/ RaceCheck
    \/ RaceRetrieve
    \/ RaceScan
    \/ RaceSave
    \/ RaceDeploy
    \/ ValBegin
    \/ ValSetup
    \/ ValRetrieve
    \/ ValLocal
    \/ ValDeploy
    \/ ExtRule
    \/ ChkBegin
    \/ ChkStatus
    \/ ChkUpdate
    \/ ChkSave
    \/ ChkLoop
    \/ ChkInterrupt
    \/ ChkRestore
    \/ ExtChk
    \/ UtilVerify
    \/ CliExecute
    \/ CliMutate
    \/ CliBulkDelete
    \/ SessNew
    \/ SessQuery
    \/ SessIsSandbox
    \/ SessLookup
    \/ RunExit

Spec == Init /\ [][Next]_vars

\* a turn of the reminder loop in which wait_with_interrupt returned True
LoopKey == ChkLoop /\ run'.answer \in {"yes", "no"}
\* a turn in which the operator then answered yes
LoopYes == ChkLoop /\ run'.answer = "yes"

\* the operator of a check-all run presses a key sooner or later
LiveSpec == Spec /\ WF_vars(LoopKey)

\* ------------------------------------------------------------------ vocabulary of the properties
\* the steps that write to the remote org
RemoteWrite == {"deploy", "update"}
\* the gate let the run through
GateOpen == run.gate \in {"proceed", "warn", "confirmed"}
\* the metadata of an org the tool of this behaviour works on
RemoteOf(org) ==
    IF tool = "trigger" THEN remoteTrig[org]
    ELSE IF tool = "validation" THEN remoteRules[org]
    ELSE remoteChk[org]
\* a snapshot is on disk
SnapshotExists ==
    IF tool = "trigger" THEN trigState.exists
    ELSE IF tool = "validation" THEN backup_files(valCache) # {}
    ELSE chkState.exists
\* the snapshot on disk holds the values `pre` of the scope of the last mutate
SnapshotHolds(pre) ==
    IF tool = "checkbox" THEN chkState.exists /\ chkState.boxes = pre
    ELSE valCache.backupDir /\ \A r \in RulesOf(rt.obj) : valCache.backup[r] = pre[r]

\* ------------------------------------------------------------------ C1
\* C1: whenever the Organization record says IsSandbox = false, the gate of a
\* mutating operation (verify_sandbox_org, the validation-rule gate,
\* TriggerManager.verify_sandbox) raises, whatever the instance URL says, and
\* the run ends in error having retrieved, snapshotted and deployed nothing
C1_ProductionGateRaises ==
    (tool \in {"util", "validation", "trigger"} /\ run.primFalse) =>
        /\ run.gate = "raise"
        /\ run.pc = "done"
        /\ run.exit = 1
        /\ run.ev = {"gate"}

C1_Witness ==
    /\ tool = "validation"
    /\ run.mode = "disable"
    /\ run.primFalse
    /\ run.fbSandbox
    /\ run.pc = "done"
    /\ run.exit = 1

\* ------------------------------------------------------------------ C2
\* C2: in a mutate run of any kind a remote write (deploy / update record) has
\* been issued only if the gate was evaluated and the snapshot of the prior
\* values was written before
C2_SnapshotBeforeRemoteWrite ==
    (run.mode \in MutateModes /\ run.ev \cap RemoteWrite # {}) =>
        {"gate", "snapwrite"} \subseteq run.ev

\* ------------------------------------------------------------------ C3
\* C3: a mutate immediately followed by a restore of the same org and scope,
\* both deploys taking effect and nobody else changing the org in between,
\* leaves every item of the org at its value before the mutate
C3_RoundTrip ==
    rt.phase = "restored" => RemoteOf(rt.org) = rt.pre

C3_Witness ==
    /\ tool = "trigger"
    /\ rt.phase = "restored"
    /\ \E t \in Triggers : rt.pre[t] = "Active"
    /\ RemoteOf(rt.org) = rt.pre

\* ------------------------------------------------------------------ C4
\* C4: a trigger disable started without --reset while trigger_state.json
\* exists ends with exit status 1 before any retrieve or deploy and leaves the
\* state file as it was
C4_SecondDisableRefused ==
    [][(/\ tool = "trigger"
        /\ Idle
        /\ trigState.exists
        /\ run'.mode = "disable"
        /\ ~run'.reset
        /\ run'.gate = "proceed")
       => (/\ run'.pc = "done"
           /\ run'.exit = 1
           /\ run'.ev = {"gate"}
           /\ trigState' = trigState
           /\ remoteTrig' = remoteTrig)]_vars

C4_Witness ==
    /\ tool = "trigger"
    /\ run.mode = "disable"
    /\ ~run.reset
    /\ run.had
    /\ run.gate = "proceed"
    /\ run.pc = "done"
    /\ run.exit = 1
    /\ trigState.exists

\* ------------------------------------------------------------------ C5
\* C5: a validation disable or a checkbox check-all / uncheck-all run while the
\* snapshot of an earlier, not yet restored mutate of the same scope exists is
\* refused (it writes nothing) and the earlier snapshot keeps its content
C5_MutateOverSnapshotRefused ==
    (/\ tool \in {"validation", "checkbox"}
     /\ rt.phase = "mutated"
     /\ run.mode \in MutateModes
     /\ run.org = rt.org
     /\ run.obj = rt.obj
     /\ GateOpen)
    => (/\ run.ev \cap {"snapwrite", "snapdel", "deploy", "update"} = {}
        /\ SnapshotHolds(rt.pre))

\* ------------------------------------------------------------------ C6
\* C6: the validation-rule snapshot taken for one object survives a later
\* disable or sync run for another object, so that enable still finds it
C6_SnapshotSurvivesOtherObject ==
    (/\ tool = "validation"
     /\ rt.phase = "mutated"
     /\ run.mode \in {"disable", "sync"}
     /\ run.obj # rt.obj)
    => (/\ valCache.backupDir
        /\ rt.obj \in valCache.objs
        /\ \A r \in RulesOf(rt.obj) : valCache.backup[r] = rt.pre[r])

C8_RestoreOnOtherOrgRefused ==
    (/\ rt.phase = "mutated"
     /\ run.mode \in RestoreModes
     /\ run.org # rt.org
     /\ GateOpen)
    => (/\ run.ev \cap RemoteWrite = {}
        /\ run.pc = "done" => run.exit = 1)

\* ------------------------------------------------------------------ C9
\* C9: a restore that reached its deploy discards the snapshot exactly when the
\* deploy succeeded
C9_DiscardIffDeploySucceeded ==
    (run.mode \in RestoreModes /\ run.pc = "done" /\ run.dep # None) =>
        (SnapshotExists <=> run.dep # "ok")

\* ------------------------------------------------------------------ C10
\* C10: a restore sets every item of the snapshot back to its recorded value
\* and leaves every retrieved item that is absent from the snapshot as it is
\* (enable_triggers on the meta files, restore_state on the record)
C10_RestoreFrame ==
    [][/\ (tool = "trigger" /\ run.mode = "enable" /\ run.pc = "local") =>
             \A t \in Triggers :
                 trigLocal[t] # None =>
                     trigLocal'[t] = IF load_state[t] # None THEN load_state[t]
                                     ELSE trigLocal[t]
       /\ (tool = "checkbox" /\ run.mode = "restore" /\ run.pc = "work"
              /\ remoteChk' # remoteChk) =>
             \A f \in Fields :
                 remoteChk[run.org][f] # None =>
                     remoteChk'[run.org][f] = IF chkState.boxes[f] # None
                                              THEN chkState.boxes[f]
                                              ELSE remoteChk[run.org][f]]_vars

\* ------------------------------------------------------------------ C11
\* the payload of the snapshot on disk, item by item ("-": not recorded)
SnapshotPayload ==
    IF tool = "trigger" THEN trigState.items
    ELSE IF tool = "validation" THEN valCache.backup
    ELSE chkState.boxes
\* the items a mutate to `target` changes, with their value before the mutate
ChangedItems(pre, target) ==
    [i \in DOMAIN pre |-> IF pre[i] \notin {None, target} THEN pre[i] ELSE None]
\* the value a mutate run sets every item to
TargetOf(r) ==
    IF tool = "trigger" THEN "Inactive"
    ELSE IF tool = "validation" THEN "F"
    ELSE IF r.mode = "uncheck_all" THEN "F" ELSE "T"
\* a mutate run has written its snapshot
SnapshotWritten == run.mode \in MutateModes /\ "snapwrite" \in run.ev

\* C11 as stated: the snapshot written by a mutate holds exactly the items the
\* mutate changed, each with its value before the mutate
C11_SnapshotOnlyChanged ==
    SnapshotWritten => SnapshotPayload = ChangedItems(run.r0, TargetOf(run))

\* C11 amended: the trigger state file holds exactly the triggers that were
\* Active, mapped to "Active"; the validation-rule backup holds every
\* retrieved rule file and the checkbox state file every checkbox field, each
\* with its value before the mutate, whether or not the mutate changed it
C11_SnapshotPayload ==
    SnapshotWritten =>
        IF tool = "trigger"
        THEN trigState.items = ChangedItems(run.r0, "Inactive")
        ELSE SnapshotPayload = run.r0

C11_Witness ==
    /\ tool = "validation"
    /\ SnapshotWritten
    /\ run.r0["r1"] = "F"
    /\ run.r0["r2"] = "T"
    /\ valCache.backup["r1"] = "F"

\* ------------------------------------------------------------------ C12
\* C12: a validation-rule disable reports modified = the number of retrieved
\* rules that were active before the run and alreadyInactive = the number of
\* the other retrieved rules; the two add up to the number of rule files, and
\* every rule counted as modified is inactive in the files that are deployed
\* (and in the org once the deploy has taken effect)
C12_DisableCounts ==
    (tool = "validation" /\ run.mode = "disable" /\ run.modified >= 0) =>
        /\ run.modified = Cardinality({r \in RulesOf(run.obj) : run.r0[r] = "T"})
        /\ run.skipped = Cardinality({r \in RulesOf(run.obj) : run.r0[r] # "T"})
        /\ run.modified + run.skipped = Cardinality(rule_files(valCache, run.obj))
        /\ \A r \in RulesOf(run.obj) :
               run.r0[r] = "T" =>
                   /\ valCache.rules[r] = "F"
                   /\ run.dep = "ok" => remoteRules[run.org][r] = "F"

C12_Witness ==
    /\ tool = "validation"
    /\ run.mode = "disable"
    /\ run.modified = 1
    /\ run.skipped = 1
    /\ run.dep = "ok"

\* ------------------------------------------------------------------ C13
\* C13: whenever is_sandbox() returns False, a data-modifying operation of
\* SalesforceCLI (update_record, create_record, delete_record,
\* bulk_delete_records, bulk_upsert) raises RuntimeError and issues no command
\* beyond the ones is_sandbox itself made
C13_MutationBlockedOnProduction ==
    (tool = "cli" /\ run.mode \in MutatingOps /\ run.isb = "F") =>
        /\ run.res.ret = "RuntimeError"
        /\ run.res.kind = "production"
        /\ run.ev = {"is_sandbox"}
        /\ run.exit = 1

C13_Witness ==
    /\ tool = "cli"
    /\ run.mode = "delete_record"
    /\ run.isb = "F"
    /\ run.res.ret = "RuntimeError"
    /\ "write" \notin run.ev

\* ------------------------------------------------------------------ C14
\* C14: _execute_sf_command and run_sf_command raise, and return no payload,
\* whenever the exit code is non-zero or the status of the JSON body is
\* non-zero, exit code 0 with status 1 included
C14_FailureClassified ==
    (/\ tool = "cli"
     /\ run.mode = "execute"
     /\ run.inp.exec \in {"cli", "val"}
     /\ run.inp.binary
     /\ (run.inp.rc # 0 \/ run.inp.stdout = "obj_status1"))
    => (run.res.ret = "RuntimeError" /\ run.res.kind = "failed")

C14_Witness ==
    /\ tool = "cli"
    /\ run.mode = "execute"
    /\ run.inp.exec = "val"
    /\ run.inp.binary
    /\ run.inp.rc = 0
    /\ run.inp.stdout = "obj_status1"
    /\ run.res.ret = "RuntimeError"

\* ------------------------------------------------------------------ C15
\* C15: _execute_sf_command and run_sf_command return the payload when the exit
\* code is 0 and the status of the payload, when it has one, is 0; a parsed
\* payload without a status and exit code 0 is a success
C15_SuccessClassified ==
    (/\ tool = "cli"
     /\ run.mode = "execute"
     /\ run.inp.exec \in {"cli", "val"}
     /\ run.inp.binary
     /\ run.inp.rc = 0
     /\ run.inp.stdout \in {"obj_status0", "obj_nostatus"})
    => run.res.ret = "payload"

\* ------------------------------------------------------------------ C16
\* C16: when stdout is no JSON, _execute_sf_command and run_sf_command never
\* return a payload, exit code 0 included: they end with a RuntimeError
C16_NonJsonNeverSucceeds ==
    (/\ tool = "cli"
     /\ run.mode = "execute"
     /\ run.inp.exec \in {"cli", "val"}
     /\ run.inp.stdout = "text")
    => run.res.ret = "RuntimeError"

C16_Witness ==
    /\ tool = "cli"
    /\ run.mode = "execute"
    /\ run.inp.exec = "cli"
    /\ run.inp.binary
    /\ run.inp.rc = 0
    /\ run.inp.stdout = "text"
    /\ run.res.ret = "RuntimeError"

\* ------------------------------------------------------------------ C17
\* C17: when stdout cannot be parsed, the error outcome carries the raw stdout
\* and differs from the outcome of every failure the tool reported in a JSON
\* body
C17_MalformedOutputClassified ==
    (/\ tool = "cli"
     /\ run.mode = "execute"
     /\ run.inp.exec \in {"cli", "val"}
     /\ run.inp.binary
     /\ run.inp.stdout = "text")
    => (/\ run.res.raw
        /\ \A j \in Invocations :
              (j.exec = run.inp.exec /\ j.binary /\ parsed(j.stdout))
                  => execute(j) # run.res)

\* ------------------------------------------------------------------ C18
\* C18: when the binary is absent, each of the three executors ends with an
\* error of its own kind ("not found"), which no invocation of a binary that
\* is there ends with
C18_ToolUnavailableClassified ==
    (tool = "cli" /\ run.mode = "execute" /\ ~run.inp.binary) =>
        /\ run.res.ret = "RuntimeError"
        /\ run.res.kind = "not_found"
        /\ \A j \in Invocations :
              (j.exec = run.inp.exec /\ j.binary) => execute(j) # run.res

\* ------------------------------------------------------------------ C19
\* C19: every failure outcome of _execute_sf_command and run_sf_command carries
\* the tool's message, the raw stderr when stderr is not empty, and the
\* structured payload (sf_error_data)
C19_FailureCarriesDiagnostics ==
    (/\ tool = "cli"
     /\ run.mode = "execute"
     /\ run.inp.exec \in {"cli", "val"}
     /\ run.res.kind = "failed")
    => (/\ (parsed(run.inp.stdout) /\ run.inp.message) => run.res.msg
        /\ run.inp.stderr => run.res.stderr
        /\ run.res.data)

\* ------------------------------------------------------------------ C20
\* C20: when neither the Organization record nor the instance URL can be
\* obtained, the gate of a mutate / restore run does not raise: it warns and
\* the run proceeds
C20_UnverifiableGateProceeds ==
    (run.pc # "idle" /\ run.noSignal /\ run.mode \in MutateModes \cup RestoreModes)
        => run.gate = "warn"

\* ------------------------------------------------------------------ C21
\* C21: is_sandbox is the reference function: when the Organization query
\* yields a record, the result is the record's IsSandbox and org display is not
\* consulted; otherwise, when there is an instance URL, the result is true
\* exactly when the lower-cased URL contains ".sandbox."
C21_IsSandboxReference ==
    (tool = "session" /\ sf_cli.nIs > 0) =>
        /\ HasRecord(sf_cli.seenPrim) =>
              /\ ~sf_cli.consulted
              /\ sf_cli.seenInfo = NoInfo
              /\ sf_cli.seenPrim = "rec_true" => sf_cli.last = "T"
              /\ sf_cli.seenPrim = "rec_false" => sf_cli.last = "F"
        /\ (~HasRecord(sf_cli.seenPrim) /\ sf_cli.seenInfo.kind = "url") =>
              (sf_cli.last = "T" <=>
                  \E i \in DOMAIN sf_cli.seenInfo.url :
                      lower(sf_cli.seenInfo.url[i]) = ".sandbox.")

C21_Witness ==
    /\ tool = "session"
    /\ sf_cli.seenPrim = "norec"
    /\ sf_cli.consulted
    /\ sf_cli.seenInfo.kind = "url"
    /\ sf_cli.seenInfo.url[2] = ".SANDBOX."
    /\ sf_cli.last = "T"

\* ------------------------------------------------------------------ C22
\* C22: on one instance each query text reaches the command executor at most
\* once; a repeat returns the stored records without a remote call; the audit
\* log holds one cache-miss row for the first call of a text and one cache-hit
\* row for each repeat
LogRows(query, cached) ==
    {k \in DOMAIN sf_cli.log :
        sf_cli.log[k].query = query /\ sf_cli.log[k].cached = cached}

C23_FailedQueryCached ==
    tool = "session" =>
        \A q \in sf_cli.failed :
            /\ sf_cli.qcache[q] = "norec"
            /\ sf_cli.nExec[q] = 1
            /\ (sf_cli.lastq.query = q /\ sf_cli.nCalls[q] > 1) =>
                  (sf_cli.lastq.ret = "norec" /\ ~sf_cli.lastq.remote)

C23_Witness ==
    /\ tool = "session"
    /\ "q1" \in sf_cli.failed
    /\ sf_cli.nCalls["q1"] = 2
    /\ sf_cli.lastq.query = "q1"
    /\ sf_cli.lastq.ret = "norec"
    /\ sf_cli.nExec["q1"] = 1

\* ------------------------------------------------------------------ C24
\* C24: every query sent to the tool and every query answered from a cache
\* appends exactly one row to the audit log
C24_EveryQueryLogged ==
    tool = "session" => Len(sf_cli.log) = sf_cli.sent + sf_cli.hits

\* ------------------------------------------------------------------ C25
\* C25: once is_sandbox has returned a value on an instance, every later call
\* on that instance returns this value, whatever the tool would answer then
C25_IsSandboxStable ==
    (tool = "session" /\ sf_cli.first # None) => sf_cli.last = sf_cli.first

C25_Witness ==
    /\ tool = "session"
    /\ sf_cli.nIs >= 2
    /\ sf_cli.first = "F"
    /\ sf_cli.last = "F"
    /\ sf_cli.fresh = "T"
    /\ sf_cli.consulted

\* ------------------------------------------------------------------ C26
\* C26: after a mutate whose deploy failed, the snapshot it wrote is still
\* there with the content it was written with, and a retry of the mutate (same
\* org and object, nothing discarded first) is not turned away
C26_RetryAfterFailedDeploy ==
    (tool \in {"trigger", "validation"} /\ rt.phase = "failed") =>
        /\ Idle =>
              /\ SnapshotExists
              /\ IF tool = "trigger"
                 THEN trigState.items = ChangedItems(rt.pre, "Inactive")
                 ELSE \A r \in RulesOf(rt.obj) : valCache.backup[r] = rt.pre[r]
        /\ (/\ run.mode = "disable" /\ ~run.reset /\ GateOpen
            /\ run.org = rt.org /\ run.obj = rt.obj /\ run.pc = "done")
           => run.ev # {"gate"}

\* ------------------------------------------------------------------ C27
\* C27: a reset discards the snapshot and the local working copies and does no
\* retrieve, local edit or deploy; a snapshot is deleted only by an explicit
\* reset or by a restore whose deploy succeeded
C27_ResetFrame ==
    /\ run.reset => run.ev \cap {"retrieve", "localedit", "deploy"} = {}
    /\ "snapdel" \in run.ev =>
          \/ run.reset
          \/ (run.mode \in RestoreModes /\ run.dep = "ok")

\* ------------------------------------------------------------------ C28
\* C28: in the reminder loop the remote checkboxes change only in a turn in
\* which the operator pressed a key and answered yes; the state file does not
\* change in any turn, the in-loop uncheck included: it holds the values
\* captured before check-all
InLoop == tool = "checkbox" /\ run.pc = "loop"
LoopUncheckSave == tool = "checkbox" /\ run.pc = "save" /\ run.mode = "check_all_unchecked"

C28_LoopOnlyObserves ==
    [][(InLoop \/ LoopUncheckSave) =>
          /\ remoteChk' # remoteChk => (InLoop /\ run'.answer = "yes")
          /\ chkState' = chkState
          /\ chkState' = saved_file(run.org, run.r0)]_vars

C28_Witness ==
    /\ tool = "checkbox"
    /\ run.mode = "check_all_unchecked"
    /\ run.pc = "done"
    /\ run.exit = 0
    /\ run.r0["f1"] = "T"
    /\ remoteChk[run.org]["f1"] = "F"
    /\ chkState.boxes["f1"] = "T"

C30_TriggerStepNeedsStatus ==
    (tool = "trigger" /\ "deploy" \in run.ev /\ run.pc = "done") =>
        /\ run.exit = 0 => Applied(run.dep)
        /\ (run.mode = "enable" /\ run.dep = "exit0_fail") =>
              ("snapdel" \notin run.ev /\ trigState.exists)

\* ------------------------------------------------------------------ C31
\* an enable run of the validation tool that got through the gate and ended
EnableEnded ==
    tool = "validation" /\ run.mode = "enable" /\ GateOpen /\ run.pc = "done"
\* the run raised before it touched anything
RaisedEarly == run.exit = 1 /\ run.ev \cap {"localedit", "deploy"} = {}
ReturnedEarly == run.exit = 0 /\ run.ev \cap {"localedit", "deploy"} = {}

\* C31 as stated: enable deploys exactly when the project root, the object's
\* directory and a backed-up rule file are there; it returns normally when the
\* project root or the backup is missing or empty, and raises when only the
\* object's directory is missing
C31_EnableChecks ==
    EnableEnded =>
        /\ "deploy" \in run.ev <=>
              (valCache.exists /\ run.obj \in valCache.objs /\ backup_files(valCache) # {})
        /\ (~valCache.exists \/ backup_files(valCache) = {}) => ReturnedEarly
        /\ (valCache.exists /\ run.obj \notin valCache.objs /\ backup_files(valCache) # {})
              => RaisedEarly

\* C31 amended: the object's directory is looked for before the backup, so a
\* missing object directory raises whether or not there is a backup; enable
\* returns normally when the project root is missing, or when the object's
\* directory is there and the backup is missing or empty
C31_EnableChecksInOrder ==
    EnableEnded =>
        /\ "deploy" \in run.ev <=>
              (valCache.exists /\ run.obj \in valCache.objs /\ backup_files(valCache) # {})
        /\ ~valCache.exists => ReturnedEarly
        /\ (valCache.exists /\ run.obj \notin valCache.objs) => RaisedEarly
        /\ (valCache.exists /\ run.obj \in valCache.objs /\ backup_files(valCache) = {})
              => ReturnedEarly

C31_Witness ==
    /\ EnableEnded
    /\ valCache.exists
    /\ run.obj \notin valCache.objs
    /\ backup_files(valCache) = {}
    /\ RaisedEarly

\* ------------------------------------------------------------------ C32
\* C32: a sync without a source org raises before anything is deleted or
\* retrieved; a sync whose source org has no validation rule for the object
\* ends after the retrieve; neither deploys to the target org
C32_SyncWithoutSourceOrRules ==
    [][(tool = "validation" /\ run'.mode = "sync") =>
          /\ run'.src = None =>
                /\ run'.pc = "done"
                /\ run'.exit = 1
                /\ run'.ev = {"gate"}
                /\ valCache' = valCache
                /\ remoteRules' = remoteRules
          /\ (run'.src # None /\ RulesOf(run'.obj) = {}) =>
                /\ "deploy" \notin run'.ev
                /\ remoteRules' = remoteRules
                /\ "retrieve" \in run'.ev => run'.pc = "done"
                /\ (run'.pc = "done" /\ run'.exit = 0) => "retrieve" \in run'.ev]_vars

C32_Witness ==
    /\ tool = "validation"
    /\ run.mode = "sync"
    /\ run.src = "B"
    /\ run.obj = "Y"
    /\ GateOpen
    /\ "retrieve" \in run.ev
    /\ run.pc = "done"
    /\ run.exit = 0

\* ------------------------------------------------------------------ C33
\* C33: when is_sandbox returned False, the checkbox tool issues no describe,
\* query or update and writes no state file unless the operator's answer,
\* stripped and lower-cased, is "y" or "yes"; after any other answer the run
\* ends at once and neither the org nor the state file has changed
C33_ProductionNeedsConfirmation ==
    [][(tool = "checkbox" /\ run'.isb = "F" /\ run'.confirm # "yes") =>
          /\ run'.pc = "done"
          /\ run'.exit = 0
          /\ run'.ev = {"gate"}
          /\ remoteChk' = remoteChk
          /\ chkState' = chkState]_vars

C33_Witness ==
    /\ tool = "checkbox"
    /\ run.mode = "check_all"
    /\ run.isb = "F"
    /\ run.confirm = "no"
    /\ run.gate = "exit0"
    /\ run.pc = "done"
    /\ run.exit = 0
    /\ remoteChk[run.org]["f1"] = "F"

\* ------------------------------------------------------------------ C34
\* C34: a disable or enable run of the trigger tool in which is_sandbox did not
\* return True (it returned False or raised) ends with exit status 1 after the
\* gate: no state file deleted or written, nothing retrieved, edited or deployed
C34_TriggerGateStrict ==
    [][(tool = "trigger" /\ run'.mode \in {"disable", "enable"} /\ run'.isb # "T") =>
          /\ run'.pc = "done"
          /\ run'.exit = 1
          /\ run'.ev = {"gate"}
          /\ trigState' = trigState
          /\ trigLocal' = trigLocal
          /\ remoteTrig' = remoteTrig]_vars

C34_Witness ==
    /\ tool = "trigger"
    /\ run.mode = "disable"
    /\ run.reset
    /\ run.isb = "err"
    /\ run.had
    /\ trigState.exists
    /\ run.pc = "done"
    /\ run.exit = 1

\* ------------------------------------------------------------------ C35
\* both runs of the race have ended
RaceOver == \A p \in Procs : race.procs[p].pc = "done"

\* a trigger one of the two runs made Inactive in the org is in the state file
Recorded(t) == trigState.exists /\ trigState.items[t] # None

C36_NoChangeNoDeploy ==
    [][/\ (/\ tool = "trigger"
           /\ run.pc = "local"
           /\ run.mode = "disable"
           /\ \A t \in Triggers : trigLocal[t] # "Active")
          => /\ run'.pc = "done"
             /\ run'.exit = 0
             /\ run'.ev \cap {"deploy", "snapwrite"} = {}
             /\ remoteTrig' = remoteTrig
             /\ trigState' = trigState
             /\ ~state_blocks_disable(trigState'.exists, FALSE)
       /\ (/\ tool = "validation"
           /\ run.pc = "local"
           /\ run.mode = "disable"
           /\ \A r \in rule_files(valCache, run.obj) : valCache.rules[r] # "T")
          => /\ run'.pc = "done"
             /\ run'.exit = 0
             /\ "deploy" \notin run'.ev
             /\ remoteRules' = remoteRules]_vars

\* a trigger disable has retrieved triggers that are all Inactive and has ended
C36_Witness ==
    /\ tool = "trigger"
    /\ run.pc = "done"
    /\ run.mode = "disable"
    /\ run.exit = 0
    /\ "retrieve" \in run.ev
    /\ "deploy" \notin run.ev
    /\ \A t \in Triggers : trigLocal[t] = "Inactive" /\ remoteTrig[run.org][t] = "Inactive"
    /\ ~trigState.exists

\* ------------------------------------------------------------------ C37
\* C37: no step of a read-only run (checkbox --status, trigger --check) writes
\* or deletes a snapshot or issues a remote write (update-record, deploy): the
\* state files and the values in the orgs are the same after the step as before.
C37_ReadOnlyModes ==
    [][(tool \in {"checkbox", "trigger"} /\ run'.mode \in {"status", "check"}) =>
          /\ run'.ev \cap {"snapwrite", "snapdel", "update", "deploy", "write", "localedit"} = {}
          /\ trigState' = trigState
          /\ chkState' = chkState
          /\ remoteTrig' = remoteTrig
          /\ remoteChk' = remoteChk]_vars

\* a --status run in a sandbox with a state file present has queried the
\* record and ended
C37_Witness ==
    /\ tool = "checkbox"
    /\ run.pc = "done"
    /\ run.mode = "status"
    /\ run.exit = 0
    /\ "query" \in run.ev
    /\ chkState.exists

\* ------------------------------------------------------------------ C38
\* C38: bulk_delete_records puts no id of excluded_ids into the CSV it hands to
\* the bulk delete command, issues no bulk delete command and returns success
\* when no record remains after the exclusion, and leaves no temporary CSV file
\* behind however it returns (success, failure of the tool, exception).
C38_BulkDeleteCsv ==
    bulk.called =>
        /\ bulk.csv \cap bulk.excluded = {}
        /\ (bulk.queried /\ bulk.records \ bulk.excluded = {})
             => ~bulk.issued /\ bulk.ret = "success_dict"
        /\ bulk.issued => bulk.csv = bulk.records \ bulk.excluded /\ bulk.csv # {}
        /\ ~bulk.temp

\* a call that excluded one of two records and whose delete command raised
C38_Witness ==
    /\ bulk.called
    /\ bulk.records = Ids
    /\ bulk.excluded = {"i1"}
    /\ bulk.csv = {"i2"}
    /\ bulk.issued
    /\ bulk.created
    /\ bulk.out = "raise"
    /\ bulk.ret = "failure_dict"

====
